---- MODULE Spec2Model ----
(***************************************************************************)
(* Model of .github/scripts/check_hera_updates.py: one invocation of       *)
(* main() loads the state file, fetches the feed, diffs the fetched        *)
(* entries against the stored ids, saves the merged ids and emits four     *)
(* named outputs.  The script is run repeatedly by a scheduler; the state  *)
(* file is what survives from one run to the next.                         *)
(***************************************************************************)
EXTENDS Integers, Sequences, FiniteSets

(* ---------------------------------------------------------------- bounds *)

\* The source caps the stored ids at 200 (line 60).  Every operation of the
\* script is parametric in the cap, so the model runs it at a small value.
StoreCap == 2

\* MAX_STORE = 200 in the source, scaled to StoreCap.
MAX_STORE == StoreCap

\* Longest feed fetched: one entry more than the cap, so that truncation cuts.
MaxFeedLen == MAX_STORE + 1

\* Number of runs of the script that are followed.
MaxRuns == 3

(* ------------------------------------------------------------ value sets *)

\* Entry ids after fetch_entries' normalisation; "" is the id of an entry that
\* has neither id, link nor title.
EntryIds == {"", "a", "b"}

\* A normalised feed entry.  title, link and published are carried by the id.
Entry == [id : EntryIds]

\* What fetch_entries can return.
Feeds == UNION {[1..n -> Entry] : n \in 0..MaxFeedLen}

\* The state file on disk: missing, not parseable as JSON, or a JSON object.
Absent == [kind |-> "absent"]
Corrupt == [kind |-> "corrupt"]

\* A well-formed state file.
StateJson(ids, iso) == [kind |-> "json", ids |-> ids, last_checked_iso |-> iso]

(* --------------------------------------------------------------- helpers *)

Range(s) == {s[k] : k \in 1..Len(s)}

Min(a, b) == IF a < b THEN a ELSE b

\* Python's s[:n].
Take(s, n) == SubSeq(s, 1, Min(n, Len(s)))

\* [e["id"] for e in entries]
IdsOf(es) == [k \in 1..Len(es) |-> es[k].id]

\* "true" if b else "false"
BoolStr(b) == IF b THEN "true" ELSE "false"

(* ------------------------------------------------------- pure computation *)

\* load_state when the file parses (or is missing).
LoadState(file) ==
    IF file.kind = "absent"
    THEN [ids |-> <<>>, last_checked_iso |-> 0]
    ELSE [ids |-> file.ids, last_checked_iso |-> file.last_checked_iso]

\* Mutant of NewEntries: the test for an empty id is missing.
NewEntriesKeepEmpty(es, prev) ==
    SelectSeq(es, LAMBDA e : e.id \notin prev)

\* new_entries = [e for e in entries if e["id"] and e["id"] not in prev_ids]
NewEntries(es, prev) ==
    SelectSeq(es, LAMBDA e : e.id # "" /\ e.id \notin prev)

\* Mutant of HasUpdates: the first-run suppression is missing.
HasUpdatesNoBaseline(news, prev, notify) ==
    news # <<>>

\* has_updates = bool(new_entries) and (bool(prev_ids) or NOTIFY_ON_FIRST_RUN)
HasUpdates(news, prev, notify) ==
    news # <<>> /\ (prev # {} \/ notify)

\* Mutant of MergedIds: line 71, the truncation, is missing.
MergedIdsUncapped(es, ids) ==
    IdsOf(es) \o SelectSeq(ids, LAMBDA i : i \notin Range(IdsOf(es)))

\* Mutant of MergedIds: the retained ids are put in front of the fetched ones.
MergedIdsOldFirst(es, ids) ==
    Take(SelectSeq(ids, LAMBDA i : i \notin Range(IdsOf(es))) \o IdsOf(es), MAX_STORE)

\* merged_ids, lines 70-71.
MergedIds(es, ids) ==
    Take(IdsOf(es) \o SelectSeq(ids, LAMBDA i : i \notin Range(IdsOf(es))), MAX_STORE)

\* subject, line 79; the date is the run's clock value.
Subject(news, today) ==
    <<"HERA latest updates: ", Len(news), " new item(s) as of ", today>>

\* body_lines, lines 80-94.
BodyLines(news) ==
    IF news # <<>>
    THEN <<<<"Found ", Len(news), " new item(s)">>, <<>>>>
         \o [k \in 1..Len(news) |-> <<"- ", news[k]>>]
         \o <<<<>>, <<"Feed: ">>>>
    ELSE <<<<"No new items since last check.">>, <<"Feed: ">>>>

\* The four outputs in the order main writes them.
OutputNames == <<"has_updates", "state_changed", "email_subject", "email_body">>

(* ----------------------------------------------------------------- state *)

VARIABLES
    stateFile,           \* the file at STATE_FILE
    out,                 \* the file at GITHUB_OUTPUT
    console,             \* lines printed by the current run
    pc,                  \* where main is
    NOTIFY_ON_FIRST_RUN, \* line 8
    GITHUB_OUTPUT,       \* "set" / "unset"
    now,                 \* the clock, read at line 53
    state,               \* main's locals ...
    prev_ids,
    entries,
    new_entries,
    has_updates,
    merged_ids,
    new_state_changed,
    subject,
    body_lines,
    nextOut,             \* index into OutputNames of the next write_output
    outcome,             \* how the current / latest run ended
    recording,           \* whether the three variables below are kept
    last,                \* the run before: outcome, entries, new_entries
    same_feed,           \* this run fetched what the run before fetched
    again,               \* entries new in this run that were new in the run before
    before,              \* stateFile and out when the current run started
    saves                \* save_state calls completed by the current run

vars == <<stateFile, out, console, pc, NOTIFY_ON_FIRST_RUN, GITHUB_OUTPUT, now,
          state, prev_ids, entries, new_entries, has_updates, merged_ids,
          new_state_changed, subject, body_lines, nextOut, outcome, recording,
          last, same_feed, again, before, saves>>

locals == <<state, prev_ids, entries, new_entries, has_updates, merged_ids,
            new_state_changed, subject, body_lines, nextOut>>

env == <<NOTIFY_ON_FIRST_RUN, GITHUB_OUTPUT, now>>

history == <<outcome, recording, last, same_feed, again, before, saves>>

\* What one run leaves for the claims about the run after it.
across == <<recording, last, same_feed, again>>

NoState == [ids |-> <<>>, last_checked_iso |-> 0]

\* The state before the first run: no state file, nothing run yet.
InitProgram ==
    /\ stateFile = Absent
    /\ out = <<>>
    /\ console = <<>>
    /\ pc = "idle"
    /\ NOTIFY_ON_FIRST_RUN = FALSE
    /\ GITHUB_OUTPUT = "unset"
    /\ now = 0
    /\ state = NoState
    /\ prev_ids = {}
    /\ entries = <<>>
    /\ new_entries = <<>>
    /\ has_updates = FALSE
    /\ merged_ids = <<>>
    /\ new_state_changed = FALSE
    /\ subject = <<>>
    /\ body_lines = <<>>
    /\ nextOut = 1
    /\ outcome = "none"
    /\ last = [outcome |-> "none", entries |-> <<>>, new_entries |-> <<>>]
    /\ same_feed = FALSE
    /\ again = {}
    /\ before = [file |-> Absent, out |-> <<>>]
    /\ saves = 0

\* The first state, without the run-to-run record.
Init ==
    /\ recording = FALSE
    /\ InitProgram

(* --------------------------------------------------------------- actions *)

\* The process starts: module constants are read from the environment
\* (lines 6-8) and main reads the clock (line 53).
Start ==
    /\ pc = "idle"
    /\ now < MaxRuns
    /\ now' = now + 1
    /\ NOTIFY_ON_FIRST_RUN' \in BOOLEAN
    /\ GITHUB_OUTPUT' \in {"set", "unset"}
    /\ out' = <<>>
    /\ console' = <<>>
    /\ last' = IF recording
               THEN [outcome |-> outcome, entries |-> entries, new_entries |-> new_entries]
               ELSE last
    /\ same_feed' = FALSE
    /\ again' = {}
    /\ UNCHANGED recording
    /\ before' = [file |-> stateFile, out |-> out']
    /\ saves' = 0
    /\ outcome' = "running"
    /\ state' = NoState
    /\ prev_ids' = {}
    /\ entries' = <<>>
    /\ new_entries' = <<>>
    /\ has_updates' = FALSE
    /\ merged_ids' = <<>>
    /\ new_state_changed' = FALSE
    /\ subject' = <<>>
    /\ body_lines' = <<>>
    /\ nextOut' = 1
    /\ pc' = "load"
    /\ UNCHANGED stateFile

\* Lines 54-55: the state file is missing or parses.
LoadStateOk ==
    /\ pc = "load"
    /\ stateFile.kind # "corrupt"
    /\ state' = LoadState(stateFile)
    /\ prev_ids' = Range(LoadState(stateFile).ids)
    /\ pc' = "fetch"
    /\ UNCHANGED <<stateFile, out, console, env, entries, new_entries, has_updates,
                   merged_ids, new_state_changed, subject, body_lines, nextOut,
                   history>>

\* Line 54: json.load raises on a file that is not valid JSON; main ends.
LoadStateFail ==
    /\ pc = "load"
    /\ stateFile.kind = "corrupt"
    /\ pc' = "idle"
    /\ outcome' = "load_failed"
    /\ UNCHANGED <<stateFile, out, console, env, locals, across, before, saves>>

\* Lines 57-72: the fetch returns es; the diff and the merge are computed.
FetchOk ==
    /\ pc = "fetch"
    /\ \E es \in Feeds :
        /\ entries' = es
        /\ new_entries' = NewEntries(es, prev_ids)
        /\ has_updates' = HasUpdates(NewEntries(es, prev_ids), prev_ids, NOTIFY_ON_FIRST_RUN)
        /\ merged_ids' = MergedIds(es, state.ids)
        /\ new_state_changed' = (MergedIds(es, state.ids) # state.ids)
        /\ same_feed' = (recording /\ es = last.entries)
        /\ again' = Range(NewEntries(es, prev_ids)) \cap Range(last.new_entries)
    /\ last' = [last EXCEPT !.entries = <<>>, !.new_entries = <<>>]
    /\ pc' = "save"
    /\ UNCHANGED <<stateFile, out, console, env, state, prev_ids, subject,
                   body_lines, nextOut, outcome, recording, before, saves>>

\* Mutant of FetchFail: the timestamp is saved before the fetch is attempted.
FetchFailAfterStamp ==
    /\ pc = "fetch"
    /\ stateFile' = StateJson(state.ids, now)
    /\ pc' = "idle"
    /\ outcome' = "fetch_failed"
    /\ UNCHANGED <<out, console, env, locals, across, before, saves>>

\* Line 57: feedparser.parse raises (network or fatal parse error); main ends.
FetchFail ==
    /\ pc = "fetch"
    /\ pc' = "idle"
    /\ outcome' = "fetch_failed"
    /\ UNCHANGED <<stateFile, out, console, env, locals, across, before, saves>>

\* Lines 73-75: the state is updated and written.
SaveStateOk ==
    /\ pc = "save"
    /\ state' = [state EXCEPT !.ids = merged_ids, !.last_checked_iso = now]
    /\ stateFile' = StateJson(merged_ids, now)
    /\ saves' = saves + 1
    /\ pc' = "compose"
    /\ UNCHANGED <<out, console, env, prev_ids, entries, new_entries, has_updates,
                   merged_ids, new_state_changed, subject, body_lines, nextOut,
                   outcome, across, before>>

\* Line 75: save_state raises.  open(path, "w") either fails and leaves the
\* file alone, or has truncated it and the dump stops part-way.
SaveStateFail ==
    /\ pc = "save"
    /\ state' = [state EXCEPT !.ids = merged_ids, !.last_checked_iso = now]
    /\ stateFile' \in {stateFile, Corrupt}
    /\ pc' = "idle"
    /\ outcome' = "save_failed"
    /\ UNCHANGED <<out, console, env, prev_ids, entries, new_entries, has_updates,
                   merged_ids, new_state_changed, subject, body_lines, nextOut,
                   across, before, saves>>

\* Lines 78-95: subject and body.
Compose ==
    /\ pc = "compose"
    /\ subject' = Subject(new_entries, now)
    /\ body_lines' = BodyLines(new_entries)
    /\ pc' = "emit"
    /\ UNCHANGED <<stateFile, out, console, env, state, prev_ids, entries,
                   new_entries, has_updates, merged_ids, new_state_changed,
                   nextOut, history>>

\* The value main passes to the k-th write_output call, lines 98-101.
OutputValue(k) ==
    CASE k = 1 -> BoolStr(has_updates)
      [] k = 2 -> BoolStr(new_state_changed)
      [] k = 3 -> subject
      [] k = 4 -> body_lines

\* write_output's record: the block form when the value has a newline (only
\* the body, which always has at least two lines), key=value otherwise.
OutputRecord(k) ==
    [name |-> OutputNames[k], value |-> OutputValue(k),
     form |-> IF k = 4 /\ Len(body_lines) > 1 THEN "block" ELSE "kv"]

\* Lines 40-50: one write_output call that returns.
WriteOutputOk ==
    /\ pc = "emit"
    /\ nextOut <= Len(OutputNames)
    /\ out' = IF GITHUB_OUTPUT = "unset" THEN out ELSE Append(out, OutputRecord(nextOut))
    /\ nextOut' = nextOut + 1
    /\ UNCHANGED <<stateFile, console, env, pc, state, prev_ids, entries, new_entries,
                   has_updates, merged_ids, new_state_changed, subject, body_lines,
                   history>>

\* Lines 46, 49: open(out, "a") raises on an unwritable sink; main ends.
WriteOutputFail ==
    /\ pc = "emit"
    /\ nextOut <= Len(OutputNames)
    /\ GITHUB_OUTPUT = "set"
    /\ pc' = "idle"
    /\ outcome' = "output_failed"
    /\ UNCHANGED <<stateFile, out, console, env, locals, across, before, saves>>

\* Lines 104-107: the log lines; main returns.
Log ==
    /\ pc = "emit"
    /\ nextOut > Len(OutputNames)
    /\ console' = <<subject>> \o [k \in 1..Len(new_entries) |-> <<"NEW: ", new_entries[k]>>]
    /\ pc' = "idle"
    /\ outcome' = "completed"
    /\ UNCHANGED <<stateFile, out, env, locals, across, before, saves>>

Next ==
    \/ Start
    \/ LoadStateOk
    \/ LoadStateFail
    \/ FetchOk
    \/ FetchFail
    \/ SaveStateOk
    \/ SaveStateFail
    \/ Compose
    \/ WriteOutputOk
    \/ WriteOutputFail
    \/ Log

\* The runs of the script, for the claims about one run.
Spec == Init /\ [][Next]_vars

\* The same state, with what each run leaves for the next one recorded.
InitRecording ==
    /\ recording = TRUE
    /\ InitProgram

\* The runs of the script, for the claims about two consecutive runs.
SpecAcrossRuns == InitRecording /\ [][Next]_vars


(* ------------------------------------------------------ stages of a run *)

\* The current (or latest) run got past load_state.
Loaded ==
    \/ pc \in {"fetch", "save", "compose", "emit"}
    \/ pc = "idle" /\ outcome \in {"fetch_failed", "save_failed", "output_failed", "completed"}

\* The current (or latest) run got past fetch_entries and the diff.
Fetched ==
    \/ pc \in {"save", "compose", "emit"}
    \/ pc = "idle" /\ outcome \in {"save_failed", "output_failed", "completed"}

\* The current (or latest) run got past save_state.
Saved ==
    \/ pc \in {"compose", "emit"}
    \/ pc = "idle" /\ outcome \in {"output_failed", "completed"}

\* main returned.
Completed == pc = "idle" /\ outcome = "completed"

\* The ids in the state file as it was when the run started.
PriorIdSeq == IF before.file.kind = "json" THEN before.file.ids ELSE <<>>

PriorIds == Range(PriorIdSeq)

FetchedIds == Range(IdsOf(entries))

NoDuplicates(s) == \A j, k \in 1..Len(s) : s[j] = s[k] => j = k

(* --------------------------------------------------------------- claims *)

\* C1: after a completed run the stored ids are at most MAX_STORE long, and
\* when at least MAX_STORE entries were fetched they are exactly the ids of the
\* first MAX_STORE fetched entries, so nothing that is only in the prior state
\* is kept.
C1_StoredIdsCapped ==
    Completed =>
        /\ stateFile.kind = "json"
        /\ Len(stateFile.ids) <= MAX_STORE
        /\ Len(entries) >= MAX_STORE =>
            /\ Len(stateFile.ids) = MAX_STORE
            /\ \A k \in 1..MAX_STORE : stateFile.ids[k] = entries[k].id
            /\ Range(stateFile.ids) \subseteq FetchedIds

\* A completed run over a feed longer than the cap, with a full prior state
\* holding an id the feed does not have.
C1_Witness ==
    /\ Completed
    /\ Len(entries) > MAX_STORE
    /\ Len(PriorIdSeq) = MAX_STORE
    /\ PriorIds \ FetchedIds # {}

\* C2 (as stated): no persisted ids list has a duplicate element.
C2_NoDuplicateIds ==
    stateFile.kind = "json" => NoDuplicates(stateFile.ids)

\* The position of id i in merged_ids is at or before every retained prior id.
PlacedBeforeRetained(i) ==
    \E j \in 1..Len(merged_ids) :
        /\ merged_ids[j] = i
        /\ \A p \in 1..Len(merged_ids) :
            merged_ids[p] \in (PriorIds \ FetchedIds) => j <= p

\* C3 (as stated): every non-empty fetched id is in merged_ids, at or before
\* every previously stored id that is not in the fetch.
C3_EveryFetchedIdMerged ==
    Fetched =>
        \A k \in 1..Len(entries) :
            entries[k].id # "" => PlacedBeforeRetained(entries[k].id)

\* C3 (amended): every non-empty id among the first MAX_STORE fetched entries
\* is in merged_ids, at or before every previously stored id that is not in
\* the fetch.
C3_FirstFetchedIdsMerged ==
    Fetched =>
        \A k \in 1..Min(Len(entries), MAX_STORE) :
            entries[k].id # "" => PlacedBeforeRetained(entries[k].id)

\* A fetch with a non-empty id after which a prior id absent from the fetch is
\* retained.
C3_Witness ==
    /\ Fetched
    /\ \E k \in 1..Len(entries) : entries[k].id # ""
    /\ Range(merged_ids) \cap (PriorIds \ FetchedIds) # {}

\* C4 (as stated): a run that follows a completed run and fetches the same
\* entries reports has_updates = false and state_changed = false.
C4_UnchangedFeedIsQuiet ==
    (Fetched /\ last.outcome = "completed" /\ same_feed) =>
        /\ ~has_updates
        /\ ~new_state_changed

\* The stored ids are the ids of the first n fetched entries, in feed order.
StoredIdsAreFirst(n) ==
    /\ stateFile.kind = "json"
    /\ Len(stateFile.ids) = n
    /\ \A k \in 1..n : stateFile.ids[k] = entries[k].id

\* A completed first run without NOTIFY_ON_FIRST_RUN over a non-empty feed.
FirstRunDone ==
    /\ Completed
    /\ before.file.kind = "absent"
    /\ ~NOTIFY_ON_FIRST_RUN
    /\ entries # <<>>

\* The first run reports has_updates = false and state_changed = true.
FirstRunSignals ==
    /\ ~has_updates
    /\ new_state_changed
    /\ GITHUB_OUTPUT = "set" =>
        /\ out[1] = [name |-> "has_updates", value |-> "false", form |-> "kv"]
        /\ out[2] = [name |-> "state_changed", value |-> "true", form |-> "kv"]

\* C5 (as stated): such a first run reports has_updates = false and
\* state_changed = true and stores exactly the fetched ids in feed order.
C5_FirstRunStoresAllIds ==
    FirstRunDone => (FirstRunSignals /\ StoredIdsAreFirst(Len(entries)))

\* C5 (amended): such a first run reports has_updates = false and
\* state_changed = true and stores the ids of the first MAX_STORE fetched
\* entries in feed order (all of them when the feed has at most MAX_STORE).
C5_FirstRunStoresCappedIds ==
    FirstRunDone => (FirstRunSignals /\ StoredIdsAreFirst(Min(Len(entries), MAX_STORE)))

\* A first run over a feed longer than the cap, with new entries and a sink.
C5_Witness ==
    /\ FirstRunDone
    /\ Len(entries) > MAX_STORE
    /\ new_entries # <<>>
    /\ GITHUB_OUTPUT = "set"

\* The positions of the fetched entries that are new against the prior state.
NewPositions ==
    {k \in 1..Len(entries) : entries[k].id # "" /\ entries[k].id \notin PriorIds}

\* The j-th smallest element of a set of positions.
NthPosition(S, j) == CHOOSE k \in S : Cardinality({p \in S : p <= k}) = j

\* C6: new_entries is the subsequence of entries, in feed order, with a
\* non-empty id that is not in the prior ids; has_updates holds exactly when
\* new_entries is non-empty and (the prior ids are non-empty or
\* NOTIFY_ON_FIRST_RUN is set); the subject's count is Len(new_entries).
C6_DiffIsExact ==
    Fetched =>
        /\ Len(new_entries) = Cardinality(NewPositions)
        /\ \A j \in 1..Len(new_entries) :
            new_entries[j] = entries[NthPosition(NewPositions, j)]
        /\ \A j \in 1..Len(new_entries) : new_entries[j].id # ""
        /\ has_updates <=> (new_entries # <<>> /\ (PriorIds # {} \/ NOTIFY_ON_FIRST_RUN))
        /\ subject # <<>> => subject[2] = Cardinality(NewPositions)

\* A composed run, without NOTIFY_ON_FIRST_RUN, whose feed has an entry with
\* an empty id, an entry already known and a new one, and that notifies.
C6_Witness ==
    /\ Fetched
    /\ subject # <<>>
    /\ ~NOTIFY_ON_FIRST_RUN
    /\ has_updates
    /\ Len(new_entries) >= 1
    /\ PriorIds \cap FetchedIds # {}
    /\ \E k \in 1..Len(entries) : entries[k].id = ""

\* C7 (as stated): a completed run has written merged_ids and its timestamp,
\* and the run that follows a completed run does not see an empty prior id
\* set, so its new entries are notified without NOTIFY_ON_FIRST_RUN.
C7_FirstRunMarkerAdvances ==
    /\ Completed => stateFile = StateJson(merged_ids, now)
    /\ (Loaded /\ last.outcome = "completed") => prev_ids # {}
    /\ (Fetched /\ last.outcome = "completed" /\ new_entries # <<>>) => has_updates

\* C8 (as stated): has_updates implies state_changed.
C8_UpdatesImplyStateChanged ==
    Fetched => (has_updates => new_state_changed)

\* C9: a run that fails in load_state or in fetch_entries leaves the state
\* file and the output sink as they were when it started.
C9_EarlyFailureWritesNothing ==
    (pc = "idle" /\ outcome \in {"load_failed", "fetch_failed"}) =>
        /\ stateFile = before.file
        /\ out = before.out
        /\ saves = 0

\* A run over an existing state file that failed in the fetch.
C9_Witness ==
    /\ pc = "idle"
    /\ outcome = "fetch_failed"
    /\ before.file.kind = "json"
    /\ before.file.ids # <<>>

\* The outputs are emitted in the order of OutputNames, after the one save.
C10_SaveThenOutputsInOrder ==
    /\ saves <= 1
    /\ Saved <=> saves = 1
    /\ out # <<>> => saves = 1
    /\ \A k \in 1..Len(out) : out[k].name = OutputNames[k]
    /\ Fetched => state.ids \in {PriorIdSeq, merged_ids}

\* When an output fails, the state file holds the run's merged ids.
C10_StateSavedWhenOutputFails ==
    (pc = "idle" /\ outcome = "output_failed") =>
        /\ stateFile.kind = "json"
        /\ stateFile.ids = merged_ids

\* After a run whose output failed, a run over the same feed has none of that
\* run's new entries in its new_entries.
C10_NoRenotifyAfterOutputFailure ==
    (Fetched /\ last.outcome = "output_failed" /\ same_feed) => again = {}

\* C10 (as stated): load, fetch, one save, then the four outputs in order; an
\* output failure leaves the merged ids saved, and the next run over the same
\* feed does not find that run's new entries new again.
C10_SavedBeforeOutputs ==
    /\ C10_SaveThenOutputsInOrder
    /\ C10_StateSavedWhenOutputFails
    /\ C10_NoRenotifyAfterOutputFailure

====
